---- MODULE Spec2Model ----
(***************************************************************************)
(* sginstrument: the enum instrumenter (src/src/instrument.rs).            *)
(*                                                                         *)
(* The syntax tree is a tree of records tagged by k.  The visitor          *)
(* EnumInstrumenter is a family of recursive operators that thread the     *)
(* instrumenter record through the tree in the order syn's VisitMut walks  *)
(* it, and return the rewritten node.  The driver (main, process_directory,*)
(* process_file) is the state machine.                                     *)
(***************************************************************************)
EXTENDS Integers, Sequences, FiniteSets, TLC

(***************************************************************************)
(* Bounds of the model.                                                    *)
(***************************************************************************)
MaxEntries == 2      \* directory entries yielded by the walker in one run
MaxStmts == 2        \* statements of a generated function body

(***************************************************************************)
(* Syntax tree (syn): expressions, statements, items.                      *)
(***************************************************************************)
None == [k |-> "None"]
Some(x) == [k |-> "Some", v |-> x]

ExprPath(segs) == [k |-> "Path", segs |-> segs]
ExprLit(v, suffix) == [k |-> "Lit", v |-> v, suffix |-> suffix]
ExprCall(func, args) == [k |-> "Call", func |-> func, args |-> args]
ExprBlock(stmts) == [k |-> "Block", stmts |-> stmts]
ExprAssign(left, right) == [k |-> "Assign", left |-> left, right |-> right]

StmtLocal(pat, init) == [k |-> "Local", pat |-> pat, init |-> init]
StmtExpr(e, semi) == [k |-> "Expr", e |-> e, semi |-> semi]
StmtItem(item) == [k |-> "Item", item |-> item]

ItemEnum(ident) == [k |-> "Enum", ident |-> ident]
ItemFn(constness, stmts) == [k |-> "Fn", constness |-> constness, block |-> stmts]
ItemConst(expr) == [k |-> "Const", expr |-> expr]
ItemStatic(expr) == [k |-> "Static", expr |-> expr]
ItemImpl(items) == [k |-> "Impl", items |-> items]
ImplItemFn(constness, stmts) == [k |-> "ImplFn", constness |-> constness, block |-> stmts]

\* parse_quote! { sginstrument::instrument(#location, #state_value); }
\* u32 values are quoted as suffixed literals (1u32, 0u32).
InstrumentStmt(location, state_value) ==
    StmtExpr(ExprCall(ExprPath(<<"sginstrument", "instrument">>),
                      <<ExprLit(location, "u32"), ExprLit(state_value, "u32")>>),
             TRUE)

\* Variant: the call is generated but the argument is left as it was.
WrapArg_bare(instrumentation, original_arg) ==
    original_arg

\* Variant: the original argument first, the call as the value of the block.
WrapArg_swapped(instrumentation, original_arg) ==
    [k |-> "Block", stmts |-> <<[k |-> "Expr", e |-> original_arg, semi |-> TRUE],
                                instrumentation>>]

\* Variant: the block binds the original argument and gives the binding back.
WrapArg_let(instrumentation, original_arg) ==
    [k |-> "Block",
     stmts |-> <<instrumentation,
                 [k |-> "Local", pat |-> "arg", init |-> original_arg],
                 [k |-> "Expr", e |-> [k |-> "Path", segs |-> <<"arg">>], semi |-> FALSE]>>]

\* parse_quote! { { #instrumentation #original_arg } }
WrapArg(instrumentation, original_arg) ==
    ExprBlock(<<instrumentation, StmtExpr(original_arg, FALSE)>>)

(***************************************************************************)
(* EnumInstrumenter.  The record s carries the four fields of the struct   *)
(* and, beside them, history fields that the code does not have: log (the  *)
(* events of the current visit), lex_const (the node being visited is      *)
(* lexically inside a const fn, const item or static item) and             *)
(* decl_visited (names of the enum declarations the walk has visited).     *)
(***************************************************************************)
EmptyMap == [x \in {} |-> 0]

EnumInstrumenter_new ==
    [enum_types |-> {},
     enum_variants |-> EmptyMap,
     location_counter |-> 1,
     in_const_context |-> FALSE,
     log |-> <<>>,
     lex_const |-> FALSE,
     decl_visited |-> {}]

\* Variant: the id is stored with insert, so a known key gets a fresh id.
create_instrumentation_call_insert(s, enum_name, variant_name) ==
    IF s.in_const_context
    THEN [s |-> s, call |-> None]
    ELSE LET location == s.location_counter
             variant_key == <<enum_name, variant_name>>
             next_state_value == Cardinality(DOMAIN s.enum_variants)
             variants == [k \in DOMAIN s.enum_variants \cup {variant_key} |->
                            IF k = variant_key THEN next_state_value
                            ELSE s.enum_variants[k]]
         IN  [s |-> [s EXCEPT !.location_counter = location + 1,
                              !.enum_variants = variants],
              call |-> InstrumentStmt(location, next_state_value)]

\* Variant: the location is taken before the const context is looked at.
create_instrumentation_call_eager(s, enum_name, variant_name) ==
    LET location == s.location_counter
        variant_key == <<enum_name, variant_name>>
        next_state_value == Cardinality(DOMAIN s.enum_variants)
        variants == IF variant_key \in DOMAIN s.enum_variants
                    THEN s.enum_variants
                    ELSE s.enum_variants @@ (variant_key :> next_state_value)
    IN  IF s.in_const_context
        THEN [s |-> [s EXCEPT !.location_counter = location + 1], call |-> None]
        ELSE [s |-> [s EXCEPT !.location_counter = location + 1,
                              !.enum_variants = variants],
              call |-> InstrumentStmt(location, variants[variant_key])]

\* Variant: in const context the variant is registered, though no call is made.
create_instrumentation_call_register(s, enum_name, variant_name) ==
    LET location == s.location_counter
        variant_key == <<enum_name, variant_name>>
        next_state_value == Cardinality(DOMAIN s.enum_variants)
        variants == IF variant_key \in DOMAIN s.enum_variants
                    THEN s.enum_variants
                    ELSE s.enum_variants @@ (variant_key :> next_state_value)
    IN  IF s.in_const_context
        THEN [s |-> [s EXCEPT !.enum_variants = variants], call |-> None]
        ELSE [s |-> [s EXCEPT !.location_counter = location + 1,
                              !.enum_variants = variants],
              call |-> InstrumentStmt(location, variants[variant_key])]

create_instrumentation_call(s, enum_name, variant_name) ==
    IF s.in_const_context
    THEN [s |-> s, call |-> None]
    ELSE LET location == s.location_counter
             variant_key == <<enum_name, variant_name>>
             next_state_value == Cardinality(DOMAIN s.enum_variants)
             variants == IF variant_key \in DOMAIN s.enum_variants
                         THEN s.enum_variants
                         ELSE s.enum_variants @@ (variant_key :> next_state_value)
             state_value == variants[variant_key]
         IN  [s |-> [s EXCEPT !.location_counter = location + 1,
                              !.enum_variants = variants],
              call |-> InstrumentStmt(location, state_value)]

\* Variant: the first two segments are taken for the type and the variant.
extract_enum_info_head(s, segs) ==
    IF Len(segs) >= 2
    THEN IF segs[1] \in s.enum_types
         THEN Some(<<segs[1], segs[2]>>)
         ELSE None
    ELSE None

extract_enum_info(s, segs) ==
    IF Len(segs) >= 2
    THEN LET enum_type == segs[Len(segs) - 1]
             variant == segs[Len(segs)]
         IN  IF enum_type \in s.enum_types
             THEN Some(<<enum_type, variant>>)
             ELSE None
    ELSE None

(***************************************************************************)
(* History of a visit: one "usage" event for every place where the visitor *)
(* hands a path expression to the classifier (a let initializer, the right *)
(* side of an assignment, a call argument).                                *)
(***************************************************************************)
Fields(s) ==
    [enum_types |-> s.enum_types,
     enum_variants |-> s.enum_variants,
     location_counter |-> s.location_counter,
     in_const_context |-> s.in_const_context]

\* if let Expr::Path(p) = e && let Some((en, vn)) = self.extract_enum_info(&p.path)
\*    && let Some(instrumentation) = self.create_instrumentation_call(&en, &vn)
Classify(s, shape, site, segs) ==
    LET Note(info, r) ==
            [s |-> [r.s EXCEPT !.log = Append(@,
                      [ev |-> "usage", shape |-> shape, site |-> site, segs |-> segs,
                       info |-> info,
                       declared |-> Len(segs) >= 2
                                    /\ segs[Len(segs) - 1] \in s.decl_visited,
                       lex_const |-> s.lex_const,
                       call |-> r.call,
                       before |-> Fields(s), after |-> Fields(r.s)])],
             call |-> r.call]
        Create(info) ==
            Note(info, IF info.k = "Some"
                       THEN create_instrumentation_call(s, info.v[1], info.v[2])
                       ELSE [s |-> s, call |-> None])
    IN  Create(extract_enum_info(s, segs))

(***************************************************************************)
(* The overridden visitor methods that do not recurse by themselves: the   *)
(* state changes around the call of syn's default walk.                    *)
(***************************************************************************)
\* Variant: the declaration is walked but its name is not recorded.
enum_types_insert_never(s, node) ==
    s

\* self.enum_types.insert(node.ident.to_string())
enum_types_insert(s, node) ==
    [s EXCEPT !.enum_types = @ \cup {node.ident}]

\* if node.sig.constness.is_some() { self.in_const_context = true; }
enter_item_fn(s, node) ==
    IF node.constness THEN [s EXCEPT !.in_const_context = TRUE] ELSE s

\* self.in_const_context = true;   (const item)
enter_item_const(s, node) ==
    [s EXCEPT !.in_const_context = TRUE]

\* self.in_const_context = true;   (static item)
enter_item_static(s, node) ==
    [s EXCEPT !.in_const_context = TRUE]

\* Variant: the flag is left as the visit of the item set it.
restore_const_context_skip(s, was_const) ==
    s

\* self.in_const_context = was_const;
restore_const_context(s, was_const) ==
    [s EXCEPT !.in_const_context = was_const]

\* History: the scope entered by an item, with the flag before, inside and after.
LogScope(s, kind, is_const, was, inside) ==
    [s EXCEPT !.log = Append(@, [ev |-> "scope", kind |-> kind, is_const |-> is_const,
                                 was |-> was, inside |-> inside,
                                 after |-> s.in_const_context,
                                 lex_outer |-> s.lex_const])]

(***************************************************************************)
(* The walk.  Every operator takes the instrumenter s, a node and the      *)
(* node's position in the source text (site, a sequence of child indices   *)
(* whose lexicographic order is text order) and returns the instrumenter   *)
(* after the visit together with the rewritten node.  visit_mut is syn's   *)
(* dispatch (visit_expr_mut, visit_stmt_mut, visit_item_mut,               *)
(* visit_impl_item_mut), which calls the overridden methods.               *)
(***************************************************************************)
RECURSIVE visit_mut(_, _, _)
RECURSIVE WalkSeq(_, _, _, _, _)
RECURSIVE BlockPass(_, _, _, _, _)
RECURSIVE ArgPass(_, _, _, _)

\* syn's default walk over a list of children (the statements of a block, the
\* callee and arguments of a call, the items of a file or impl): each child in
\* order.  at[j] is the position of nodes[j] relative to site.
WalkSeq(s, nodes, at, site, j) ==
    IF j > Len(nodes)
    THEN [s |-> s, nodes |-> nodes]
    ELSE LET Rest(r) == WalkSeq(r.s, [nodes EXCEPT ![j] = r.node], at, site, j + 1)
         IN  Rest(visit_mut(s, nodes[j], site \o at[j]))

Positions(nodes) == [j \in 1 .. Len(nodes) |-> <<j>>]

\* Variant: the call is pushed after the statement it belongs to.
BlockPass_after(s, stmts, i, site, acc) ==
    IF i > Len(stmts)
    THEN [s |-> s, new_stmts |-> acc.new_stmts, at |-> acc.at]
    ELSE LET Push(r) ==
                 BlockPass(r.s, stmts, i + 1, site,
                           IF r.call.k = "None"
                           THEN [new_stmts |-> Append(acc.new_stmts, stmts[i]),
                                 at |-> Append(acc.at, <<i>>)]
                           ELSE [new_stmts |-> acc.new_stmts \o <<stmts[i], r.call>>,
                                 at |-> acc.at \o <<(<<i>>), <<i, -1>>>>])
         IN  IF stmts[i].k = "Local" /\ stmts[i].init.k = "Path"
             THEN Push(Classify(s, "let", site \o <<i>>, stmts[i].init.segs))
             ELSE IF stmts[i].k = "Expr" /\ stmts[i].e.k = "Assign"
                     /\ stmts[i].e.right.k = "Path"
             THEN Push(Classify(s, "assign", site \o <<i>>, stmts[i].e.right.segs))
             ELSE Push([s |-> s, call |-> None])

\* for stmt in &node.stmts { match stmt { ... } }: builds new_stmts.  acc.at[j]
\* is the position of acc.new_stmts[j] relative to the block (history).
BlockPass(s, stmts, i, site, acc) ==
    IF i > Len(stmts)
    THEN [s |-> s, new_stmts |-> acc.new_stmts, at |-> acc.at]
    ELSE LET Push(r) ==
                 BlockPass(r.s, stmts, i + 1, site,
                           IF r.call.k = "None"
                           THEN [new_stmts |-> Append(acc.new_stmts, stmts[i]),
                                 at |-> Append(acc.at, <<i>>)]
                           ELSE [new_stmts |-> acc.new_stmts \o <<r.call, stmts[i]>>,
                                 at |-> acc.at \o <<(<<i, -1>>), <<i>>>>])
         IN  IF stmts[i].k = "Local" /\ stmts[i].init.k = "Path"
             THEN Push(Classify(s, "let", site \o <<i>>, stmts[i].init.segs))
             ELSE IF stmts[i].k = "Expr" /\ stmts[i].e.k = "Assign"
                     /\ stmts[i].e.right.k = "Path"
             THEN Push(Classify(s, "assign", site \o <<i>>, stmts[i].e.right.segs))
             ELSE Push([s |-> s, call |-> None])

\* node.stmts = new_stmts; syn::visit_mut::visit_block_mut(self, node);
\* History: the statements of a block before the loop, after it (with the
\* position each came from) and after the walk.
LogBlock(s, site, stmts, p, after) ==
    [s EXCEPT !.log = Append(@, [ev |-> "block", site |-> site, before |-> stmts,
                                 new_stmts |-> p.new_stmts, at |-> p.at,
                                 after |-> after])]

visit_block_mut(s, stmts, site) ==
    LET Walk(p) ==
            LET Done(w) == [s |-> LogBlock(w.s, site, stmts, p, w.nodes),
                            nodes |-> w.nodes]
            IN  Done(WalkSeq(p.s, p.new_stmts, p.at, site, 1))
    IN  Walk(BlockPass(s, stmts, 1, site, [new_stmts |-> <<>>, at |-> <<>>]))

\* Variant: an argument that is a call is classified by the path of its callee.
ArgPass_callee(s, args, i, site) ==
    IF i > Len(args)
    THEN [s |-> s, nodes |-> args]
    ELSE LET Put(r) ==
                 ArgPass(r.s,
                         IF r.call.k = "None" THEN args
                         ELSE [args EXCEPT ![i] = WrapArg(r.call, args[i])],
                         i + 1, site)
         IN  IF args[i].k = "Path"
             THEN Put(Classify(s, "arg", site \o <<i>>, args[i].segs))
             ELSE IF args[i].k = "Call" /\ args[i].func.k = "Path"
             THEN Put(Classify(s, "arg", site \o <<i>>, args[i].func.segs))
             ELSE Put([s |-> s, call |-> None])

\* for arg in &mut node.args { ... *arg = parse_quote!{ { #instrumentation #original_arg } } }
ArgPass(s, args, i, site) ==
    IF i > Len(args)
    THEN [s |-> s, nodes |-> args]
    ELSE LET Put(r) ==
                 ArgPass(r.s,
                         IF r.call.k = "None" THEN args
                         ELSE [args EXCEPT ![i] = WrapArg(r.call, args[i])],
                         i + 1, site)
         IN  IF args[i].k = "Path"
             THEN Put(Classify(s, "arg", site \o <<i>>, args[i].segs))
             ELSE Put([s |-> s, call |-> None])

\* History: the arguments of a call before the loop, after it and after the walk.
LogCall(s, site, args, wrapped, after) ==
    [s EXCEPT !.log = Append(@, [ev |-> "call", site |-> site, before |-> args,
                                 wrapped |-> wrapped, after |-> after])]

\* The loop, then syn::visit_mut::visit_expr_call_mut(self, node): the callee
\* (position 0), then the arguments.
visit_expr_call_mut(s, node, site) ==
    LET Walk(p) ==
            LET Done(w) ==
                    [s |-> LogCall(w.s, site, node.args, p.nodes, Tail(w.nodes)),
                     node |-> [node EXCEPT !.func = Head(w.nodes),
                                           !.args = Tail(w.nodes)]]
            IN  Done(WalkSeq(p.s, <<node.func>> \o p.nodes,
                             [j \in 1 .. Len(p.nodes) + 1 |-> <<j - 1>>], site, 1))
    IN  Walk(ArgPass(s, node.args, 1, site))

\* History: the declaration visited and where it stands.
LogDecl(s, site, node) ==
    [s EXCEPT !.log = Append(@, [ev |-> "decl", site |-> site, ident |-> node.ident])]

visit_item_enum_mut(s, node, site) ==
    [s |-> LogDecl(enum_types_insert(s, node), site, node), node |-> node]

\* let was_const = ...; <enter>; <walk>; self.in_const_context = was_const;
visit_item_fn_mut(s, node, site) ==
    LET Walk(s1) ==
            LET Done(r) ==
                    [s |-> LogScope(restore_const_context(r.s, s.in_const_context),
                                    "Fn", node.constness, s.in_const_context,
                                    s1.in_const_context),
                     node |-> [node EXCEPT !.block = r.nodes]]
            IN  Done(visit_block_mut(s1, node.block, site))
    IN  Walk(enter_item_fn(s, node))

visit_item_const_mut(s, node, site) ==
    LET Walk(s1) ==
            LET Done(r) ==
                    [s |-> LogScope(restore_const_context(r.s, s.in_const_context),
                                    "Const", TRUE, s.in_const_context,
                                    s1.in_const_context),
                     node |-> [node EXCEPT !.expr = r.node]]
            IN  Done(visit_mut(s1, node.expr, site \o <<0>>))
    IN  Walk(enter_item_const(s, node))

visit_item_static_mut(s, node, site) ==
    LET Walk(s1) ==
            LET Done(r) ==
                    [s |-> LogScope(restore_const_context(r.s, s.in_const_context),
                                    "Static", TRUE, s.in_const_context,
                                    s1.in_const_context),
                     node |-> [node EXCEPT !.expr = r.node]]
            IN  Done(visit_mut(s1, node.expr, site \o <<0>>))
    IN  Walk(enter_item_static(s, node))

\* syn::visit_mut::visit_impl_item_fn_mut (not overridden): the method's block.
visit_impl_item_fn_mut(s, node, site) ==
    LET Done(r) ==
            [s |-> LogScope(r.s, "ImplFn", node.constness, s.in_const_context,
                            s.in_const_context),
             node |-> [node EXCEPT !.block = r.nodes]]
    IN  Done(visit_block_mut(s, node.block, site))

\* syn::visit_mut::visit_item_impl_mut (not overridden): every impl item in order.
visit_item_impl_mut(s, node, site) ==
    LET Done(w) == [s |-> w.s, node |-> [node EXCEPT !.items = w.nodes]]
    IN  Done(WalkSeq(s, node.items, Positions(node.items), site, 1))

\* History: what the node is lexically, whatever the visitor tracks.
IsConstScope(item) ==
    \/ item.k \in {"Const", "Static"}
    \/ item.k \in {"Fn", "ImplFn"} /\ item.constness

EnterLexical(s, item) ==
    [s EXCEPT !.lex_const = @ \/ IsConstScope(item),
              !.decl_visited = IF item.k = "Enum" THEN @ \cup {item.ident} ELSE @]

LeaveLexical(r, s) ==
    [r EXCEPT !.s.lex_const = s.lex_const]

\* syn::visit_mut::visit_item_mut and visit_impl_item_mut: dispatch on the kind.
visit_item_kind(s, item, site) ==
    CASE item.k = "Enum" -> visit_item_enum_mut(s, item, site)
      [] item.k = "Fn" -> visit_item_fn_mut(s, item, site)
      [] item.k = "Const" -> visit_item_const_mut(s, item, site)
      [] item.k = "Static" -> visit_item_static_mut(s, item, site)
      [] item.k = "Impl" -> visit_item_impl_mut(s, item, site)
      [] item.k = "ImplFn" -> visit_impl_item_fn_mut(s, item, site)

\* syn::visit_mut::visit_expr_block_mut, visit_expr_assign_mut, visit_local_mut.
visit_expr_block_mut(s, e, site) ==
    LET Done(r) == [s |-> r.s, node |-> [e EXCEPT !.stmts = r.nodes]]
    IN  Done(visit_block_mut(s, e.stmts, site))

visit_expr_assign_mut(s, e, site) ==
    LET Done(w) == [s |-> w.s,
                    node |-> [e EXCEPT !.left = w.nodes[1], !.right = w.nodes[2]]]
    IN  Done(WalkSeq(s, <<e.left, e.right>>, <<(<<0>>), <<1>>>>, site, 1))

visit_local_mut(s, stmt, site) ==
    IF stmt.init.k = "None"
    THEN [s |-> s, node |-> stmt]
    ELSE LET Done(r) == [s |-> r.s, node |-> [stmt EXCEPT !.init = r.node]]
         IN  Done(visit_mut(s, stmt.init, site \o <<0>>))

visit_stmt_expr(s, stmt, site) ==
    LET Done(r) == [s |-> r.s, node |-> [stmt EXCEPT !.e = r.node]]
    IN  Done(visit_mut(s, stmt.e, site))

visit_stmt_item(s, stmt, site) ==
    LET Done(r) == [s |-> r.s, node |-> [stmt EXCEPT !.item = r.node]]
    IN  Done(visit_mut(s, stmt.item, site))

visit_mut(s, node, site) ==
    CASE node.k = "Call" -> visit_expr_call_mut(s, node, site)
      [] node.k = "Block" -> visit_expr_block_mut(s, node, site)
      [] node.k = "Assign" -> visit_expr_assign_mut(s, node, site)
      [] node.k = "Local" -> visit_local_mut(s, node, site)
      [] node.k = "Expr" -> visit_stmt_expr(s, node, site)
      [] node.k = "Item" -> visit_stmt_item(s, node, site)
      [] node.k \in {"Enum", "Fn", "Const", "Static", "Impl", "ImplFn"} ->
            LeaveLexical(visit_item_kind(EnterLexical(s, node), node, site), s)
      [] OTHER -> [s |-> s, node |-> node]

\* syn::visit_mut::visit_file_mut: every item of the file in order.
visit_file_mut(s, file) ==
    WalkSeq(s, file, Positions(file), <<>>, 1)

(***************************************************************************)
(* tests::test_enum_instrumentation: the scenario file.                    *)
(***************************************************************************)
ScenarioFile ==
    <<ItemEnum("Status"),
      ItemFn(FALSE,
        <<StmtLocal("status", ExprPath(<<"Status", "Active">>)),
          StmtLocal("other", ExprCall(ExprPath(<<"Status", "Pending">>),
                                      <<ExprLit(42, "")>>)),
          StmtExpr(ExprAssign(ExprPath(<<"other">>),
                              ExprPath(<<"Status", "Inactive">>)), TRUE),
          StmtExpr(ExprCall(ExprPath(<<"process_status">>),
                            <<ExprPath(<<"Status", "Active">>)>>), TRUE)>>)>>

(***************************************************************************)
(* The source files the run may meet: the inputs of process_file.          *)
(* Every file holds one function whose body is a short sequence of         *)
(* statements; the function is plain, const or a const method, and enum    *)
(* declarations and const items stand before or after it.                  *)
(***************************************************************************)
P(segs) == ExprPath(segs)
F(args) == ExprCall(ExprPath(<<"f">>), args)
Tuple == ExprCall(ExprPath(<<"S", "P">>), <<ExprLit(42, "")>>)
Let(e) == StmtLocal("v", e)
Set(e) == StmtExpr(ExprAssign(ExprPath(<<"v">>), e), TRUE)
Do(e) == StmtExpr(e, TRUE)

\* The three shapes of usage.
CoreStmts ==
    { Let(P(<<"S", "A">>)),
      Set(P(<<"S", "B">>)),
      Do(F(<<P(<<"S", "A">>)>>)) }

\* Other statements: a second enum, paths of one and three segments, tuple
\* constructions, calls with two arguments, a nested call, local declarations.
ExtraStmts ==
    { Let(P(<<"T", "B">>)),
      Let(Tuple),
      Set(P(<<"x">>)),
      Set(Tuple),
      Do(F(<<ExprLit(42, ""), P(<<"m", "S", "B">>)>>)),
      Do(F(<<Tuple>>)),
      Do(F(<<F(<<P(<<"S", "A">>)>>), P(<<"S", "B">>)>>)),
      StmtItem(ItemEnum("S")),
      StmtItem(ItemFn(FALSE, <<Let(P(<<"S", "A">>))>>)),
      StmtItem(ItemFn(TRUE, <<Set(P(<<"S", "B">>))>>)) }

RECURSIVE SeqsUpTo(_, _)
SeqsUpTo(S, n) ==
    IF n = 0 THEN {<<>>}
    ELSE LET shorter == SeqsUpTo(S, n - 1)
         IN  shorter \cup {Append(q, x) : q \in shorter, x \in S}

CoreBodies == SeqsUpTo(CoreStmts, MaxStmts) \ {<<>>}

OneStmtBodies == {<<c>> : c \in CoreStmts}

ExtraBodies ==
    {<<x>> : x \in ExtraStmts}
        \cup {<<x, c>> : x \in ExtraStmts, c \in CoreStmts}
        \cup {<<c, x>> : x \in ExtraStmts, c \in CoreStmts}

Containers(bodies) ==
    {ItemFn(c, b) : c \in BOOLEAN, b \in bodies}
        \cup {ItemImpl(<<ImplItemFn(TRUE, b)>>) : b \in bodies}

\* A plain function declared inside a const function and inside a const item.
NestedInConst ==
    { ItemFn(TRUE, <<StmtItem(ItemFn(FALSE, <<Let(P(<<"S", "A">>))>>)),
                     Set(P(<<"S", "B">>))>>),
      ItemConst(ExprBlock(<<StmtItem(ItemFn(FALSE, <<Do(F(<<P(<<"S", "A">>)>>))>>))>>)) }

ConstItems ==
    { ItemConst(F(<<P(<<"S", "A">>)>>)),
      ItemStatic(ExprBlock(<<Let(P(<<"S", "B">>)), Do(F(<<P(<<"S", "A">>)>>))>>)) }

\* Nothing declared in the file (an earlier file of the run may have declared
\* the enums); both enums declared first; the enum declared after its usages; a
\* const or static item between the declaration and the function; a
\* declaration between two functions; an enum declared inside the function
\* body before its usage; the scenario of the test.
Files ==
    {<<ItemFn(FALSE, b)>> : b \in CoreBodies}
        \cup {<<c>> : c \in Containers(OneStmtBodies)}
        \cup {<<ItemEnum("S"), ItemEnum("T"), ItemFn(FALSE, b)>> : b \in CoreBodies}
        \cup {<<ItemEnum("S"), ItemEnum("T"), c>> : c \in Containers(OneStmtBodies)}
        \cup {<<ItemFn(FALSE, b), ItemEnum("S")>> : b \in OneStmtBodies}
        \cup {<<ItemEnum("S"), k, ItemFn(FALSE, b)>> :
                 k \in ConstItems, b \in OneStmtBodies}
        \cup {<<ItemEnum("S"), ItemEnum("T"), ItemFn(FALSE, b)>> : b \in ExtraBodies}
        \cup {<<ItemFn(FALSE, <<x>>), ItemEnum("S"), ItemFn(FALSE, <<y>>)>> :
                 x \in CoreStmts, y \in CoreStmts}
        \cup {<<ItemFn(FALSE, <<StmtItem(ItemEnum("S")), c>>)>> : c \in CoreStmts}
        \cup {<<ItemEnum("S"), k, ItemFn(FALSE, <<Let(P(<<"S", "A">>))>>)>> :
                 k \in NestedInConst}
        \cup {ScenarioFile}

(***************************************************************************)
(* The driver: main, process_directory, process_file.                      *)
(***************************************************************************)
VARIABLES
    pc,            \* where the run is: "main", "walk", "process", "write",
                   \* "complete", "done"
    mode,          \* "file" or "dir": the branch main took ("none" before)
    instrumenter,  \* the one EnumInstrumenter of the run (its four fields)
    entries,       \* the paths met so far, in traversal order, with their file state
    input,         \* process_file: Some(the tree parsed from the file), or None
    output,        \* process_file: Some(the tree after visit_file_mut), or None
    stdout,        \* the lines printed
    result,        \* what main returns (None while it runs)
    log,           \* history: the events of the last visit_file_mut
    before,        \* history: the instrumenter when process_file last began (the
                   \* instrumenter itself outside process_file)
    decl_visited,  \* history: names of the enum declarations visited in the run
    emitted,       \* history: number of calls generated in the run
    first_state    \* history: for every variant key the run generated a call for,
                   \* in the order of their first calls, the state id of that call

vars == <<pc, mode, instrumenter, entries, input, output, stdout, result, log, before,
          decl_visited, emitted, first_state>>

Ok == [k |-> "Ok"]
Err(e) == [k |-> "Err", e |-> e]
WrongArguments == [type |-> "WrongArguments"]
InvalidPath == [type |-> "InvalidPath"]
ErrorProcessing(path, e) == [type |-> "ErrorProcessing", path |-> path, source |-> e]
IoError(op) == [type |-> "io", op |-> op]
SynError == [type |-> "syn"]
WalkdirError == [type |-> "walkdir"]

\* A path met by the run: whether the loop of process_directory takes it
\* (a file with extension rs), how often it was read and written, what it holds.
Entry(kind) == [kind |-> kind, reads |-> 0, writes |-> 0, content |-> "original"]

Init ==
    /\ pc = "main"
    /\ mode = "none"
    /\ instrumenter = Fields(EnumInstrumenter_new)
    /\ entries = <<>>
    /\ input = None
    /\ output = None
    /\ stdout = <<>>
    /\ result = None
    /\ log = <<>>
    /\ before = Fields(EnumInstrumenter_new)
    /\ decl_visited = {}
    /\ emitted = 0
    /\ first_state = <<>>

\* What a file holds when process_file opens it: unreadable, unparsable, or the
\* text of a tree (syn::parse_file of the printed token stream of a tree gives
\* the tree back).
FileInputs ==
    {[fault |-> f, tree |-> None] : f \in {"read", "parse"}}
        \cup {[fault |-> "none", tree |-> t] : t \in Files}

\* Variant: every file is visited by an instrumenter of its own.
Resume_fresh(self, visited) ==
    [EnumInstrumenter_new EXCEPT !.decl_visited = visited]

\* Variant: the names of the enums do not carry over to the next file.
Resume_forget(self, visited) ==
    [enum_types |-> {},
     enum_variants |-> self.enum_variants,
     location_counter |-> self.location_counter,
     in_const_context |-> self.in_const_context,
     log |-> <<>>,
     lex_const |-> FALSE,
     decl_visited |-> visited]

Resume(self, visited) ==
    [enum_types |-> self.enum_types,
     enum_variants |-> self.enum_variants,
     location_counter |-> self.location_counter,
     in_const_context |-> self.in_const_context,
     log |-> <<>>,
     lex_const |-> FALSE,
     decl_visited |-> visited]

\* Variant: a location is taken for the file before its text is parsed.
process_file_visit_early(s, file) ==
    IF file.fault = "read"
    THEN [s |-> s, res |-> Err(IoError("read")), input |-> None, output |-> None]
    ELSE IF file.fault = "parse"
    THEN [s |-> [s EXCEPT !.location_counter = @ + 1], res |-> Err(SynError),
          input |-> None, output |-> None]
    ELSE LET Done(r) == [s |-> r.s, res |-> Ok, input |-> Some(file.tree),
                         output |-> Some(r.nodes)]
         IN  Done(visit_file_mut(s, file.tree))

\* process_file up to the write: read, parse, visit.
process_file_visit(s, file) ==
    IF file.fault = "read"
    THEN [s |-> s, res |-> Err(IoError("read")), input |-> None, output |-> None]
    ELSE IF file.fault = "parse"
    THEN [s |-> s, res |-> Err(SynError), input |-> None, output |-> None]
    ELSE LET Done(r) == [s |-> r.s, res |-> Ok, input |-> Some(file.tree),
                         output |-> Some(r.nodes)]
         IN  Done(visit_file_mut(s, file.tree))

\* Variant: the failing file is skipped and the run goes on.
propagate_skip(m, path, e) ==
    [pc |-> IF m = "dir" THEN "walk" ELSE "complete", result |-> None]

\* An error of process_file at its caller: process_directory returns it wrapped
\* with the path of the entry (and main returns that), main returns it as it is.
\* Either way the run is over.
propagate(m, path, e) ==
    [pc |-> "done",
     result |-> IF m = "dir" THEN Err(ErrorProcessing(path, e)) ELSE Err(e)]

\* History: the calls generated by a visit, in the order they were generated.
Emits(events) == SelectSeq(events, LAMBDA ev : ev.ev = "usage" /\ ev.call.k # "None")
CallLocation(call) == call.e.args[1].v
CallState(call) == call.e.args[2].v
KeyOf(segs) == <<segs[Len(segs) - 1], segs[Len(segs)]>>

Keys(first) == {first[i].key : i \in 1 .. Len(first)}

RECURSIVE NoteFirst(_, _, _)
NoteFirst(first, emits, i) ==
    IF i > Len(emits) THEN first
    ELSE NoteFirst(IF KeyOf(emits[i].segs) \in Keys(first) THEN first
                   ELSE Append(first, [key |-> KeyOf(emits[i].segs),
                                       state |-> CallState(emits[i].call)]),
                   emits, i + 1)

\* main up to the dispatch on the path.
Main(argc, kind) ==
    /\ pc = "main"
    /\ IF argc # 2
       THEN /\ result' = Err(WrongArguments)
            /\ pc' = "done"
            /\ UNCHANGED <<entries, mode>>
       ELSE IF kind = "file"
       THEN /\ pc' = "process"
            /\ mode' = "file"
            /\ entries' = <<Entry("rs")>>
            /\ UNCHANGED result
       ELSE IF kind = "dir"
       THEN /\ pc' = "walk"
            /\ mode' = "dir"
            /\ UNCHANGED <<entries, result>>
       ELSE /\ result' = Err(InvalidPath)
            /\ pc' = "done"
            /\ UNCHANGED <<entries, mode>>
    /\ UNCHANGED <<instrumenter, input, output, stdout, log, before, decl_visited,
                   emitted, first_state>>

\* process_directory: the walker yields its next entry and the loop filters it
\* (y = "skip": not a file, or a file of another extension).
WalkNext(y) ==
    /\ pc = "walk"
    /\ IF y = "end"
       THEN pc' = "complete" /\ UNCHANGED <<entries, result>>
       ELSE IF y = "err"
       THEN pc' = "done" /\ result' = Err(WalkdirError) /\ UNCHANGED entries
       ELSE /\ Len(entries) < MaxEntries
            /\ entries' = Append(entries, Entry(y))
            /\ pc' = IF y = "rs" THEN "process" ELSE "walk"
            /\ UNCHANGED result
    /\ input' = None
    /\ output' = None
    /\ log' = <<>>
    /\ before' = instrumenter
    /\ UNCHANGED <<mode, instrumenter, stdout, decl_visited, emitted, first_state>>

\* process_file on the last entry, up to the write; an error goes to the caller.
Visit(file) ==
    /\ pc = "process"
    /\ LET Done(r) ==
               /\ instrumenter' = Fields(r.s)
               /\ input' = r.input
               /\ output' = r.output
               /\ log' = r.s.log
               /\ decl_visited' = r.s.decl_visited
               /\ emitted' = emitted + Len(Emits(r.s.log))
               /\ first_state' = NoteFirst(first_state, Emits(r.s.log), 1)
               /\ IF r.res = Ok
                  THEN pc' = "write" /\ UNCHANGED result
                  ELSE /\ pc' = propagate(mode, Len(entries), r.res.e).pc
                       /\ result' = propagate(mode, Len(entries), r.res.e).result
       IN  Done(process_file_visit(Resume(instrumenter, decl_visited), file))
    /\ entries' = [entries EXCEPT ![Len(entries)].reads = @ + 1]
    /\ before' = instrumenter
    /\ UNCHANGED <<mode, stdout>>

\* process_file: fs::write(file_path, output)?; println!("Processed: ..."); Ok(())
\* A failed write leaves the file as it was or cut short.
Write(outcome) ==
    /\ pc = "write"
    /\ IF outcome = "ok"
       THEN /\ entries' = [entries EXCEPT ![Len(entries)] =
                             [@ EXCEPT !.writes = @ + 1, !.content = "instrumented"]]
            /\ stdout' = Append(stdout, <<"Processed", Len(entries)>>)
            /\ pc' = IF mode = "dir" THEN "walk" ELSE "complete"
            /\ UNCHANGED result
       ELSE /\ entries' = [entries EXCEPT ![Len(entries)].content =
                             IF outcome = "cut" THEN "partial" ELSE @]
            /\ result' = propagate(mode, Len(entries), IoError("write")).result
            /\ pc' = propagate(mode, Len(entries), IoError("write")).pc
            /\ UNCHANGED stdout
    /\ UNCHANGED <<mode, instrumenter, input, output, log, before, decl_visited,
                   emitted, first_state>>

\* main: println!("Instrumentation complete!"); Ok(())
Complete ==
    /\ pc = "complete"
    /\ stdout' = Append(stdout, <<"Instrumentation complete!">>)
    /\ result' = Ok
    /\ pc' = "done"
    /\ UNCHANGED <<mode, instrumenter, entries, input, output, log, before,
                   decl_visited, emitted, first_state>>

Next ==
    \/ \E argc \in 1 .. 3, kind \in {"file", "dir", "invalid"} : Main(argc, kind)
    \/ \E y \in {"end", "err", "rs", "skip"} : WalkNext(y)
    \/ \E file \in FileInputs : Visit(file)
    \/ \E outcome \in {"ok", "fail", "cut"} : Write(outcome)
    \/ Complete

Spec == Init /\ [][Next]_vars

(***************************************************************************)
(* Reading the history and the trees.                                      *)
(***************************************************************************)
Usages == SelectSeq(log, LAMBDA ev : ev.ev = "usage")
Generated == Emits(log)
Shapes(emits) == {emits[i].shape : i \in 1 .. Len(emits)}
Visited == input.k = "Some"

IsInstrumentStmt(node) ==
    /\ node.k = "Expr"
    /\ node.e.k = "Call"
    /\ node.e.func = ExprPath(<<"sginstrument", "instrument">>)

Children(node) ==
    CASE node.k = "Call" -> <<node.func>> \o node.args
      [] node.k = "Block" -> node.stmts
      [] node.k = "Assign" -> <<node.left, node.right>>
      [] node.k = "Local" -> IF node.init.k = "None" THEN <<>> ELSE <<node.init>>
      [] node.k = "Expr" -> <<node.e>>
      [] node.k = "Item" -> <<node.item>>
      [] node.k \in {"Fn", "ImplFn"} -> node.block
      [] node.k \in {"Const", "Static"} -> <<node.expr>>
      [] node.k = "Impl" -> node.items
      [] OTHER -> <<>>

\* Number of instrumentation calls in a list of nodes, at any depth.
RECURSIVE CountCalls(_, _)
CountCalls(nodes, i) ==
    IF i > Len(nodes) THEN 0
    ELSE (IF IsInstrumentStmt(nodes[i]) THEN 1 ELSE 0)
         + CountCalls(Children(nodes[i]), 1)
         + CountCalls(nodes, i + 1)

(***************************************************************************)
(* C1.  The call generated for the first usage of a pair (EnumType,        *)
(* Variant) in the run carries the number of pairs that got a call before  *)
(* it, so the state ids are 0, 1, 2, ... in first-seen order; every later  *)
(* call for the pair, in the same or a later file, carries that same id.   *)
(***************************************************************************)
C1_StateIds ==
    /\ \A i \in 1 .. Len(first_state) : first_state[i].state = i - 1
    /\ \A i, j \in 1 .. Len(first_state) :
          first_state[i].key = first_state[j].key => i = j
    /\ \A n \in 1 .. Len(Generated) :
          \E i \in 1 .. Len(first_state) :
             /\ first_state[i].key = KeyOf(Generated[n].segs)
             /\ first_state[i].state = CallState(Generated[n].call)

\* A later file reuses the id 1 of a pair that an earlier file registered second.
C1_Witness ==
    /\ Len(first_state) >= 3
    /\ \E n \in 1 .. Len(Generated) :
          /\ KeyOf(Generated[n].segs) \in DOMAIN before.enum_variants
          /\ CallState(Generated[n].call) = 1
    /\ \E n \in 1 .. Len(Generated) :
          /\ KeyOf(Generated[n].segs) \notin DOMAIN before.enum_variants
          /\ CallState(Generated[n].call) = 2

(***************************************************************************)
(* C2.  The location ids of the generated calls, in the order of their     *)
(* generation over the whole run and whatever their shape, are 1, 2, 3,    *)
(* ...: the location counter is 1 plus the number of calls generated.      *)
(***************************************************************************)
C2_Locations ==
    /\ instrumenter.location_counter = 1 + emitted
    /\ \A n \in 1 .. Len(Generated) :
          CallLocation(Generated[n].call) = emitted - Len(Generated) + n

\* The second file of a run generates calls of all three shapes.
C2_Witness ==
    /\ Shapes(Generated) = {"let", "assign", "arg"}
    /\ emitted > Len(Generated)
    /\ Len(entries) = 2

(***************************************************************************)
(* C3.  No call is generated for a usage that is lexically inside the body *)
(* of a function declared const, a const item or a static item.            *)
(* The visitor overrides visit_item_fn_mut only: a const method of an impl *)
(* block is walked by syn's visit_impl_item_fn_mut with the flag unset.    *)
(***************************************************************************)
C3_NoCallInConst ==
    \A n \in 1 .. Len(Generated) : ~Generated[n].lex_const

(***************************************************************************)
(* C4.  Running the tool again on its own output.  As claimed: the second  *)
(* run adds no call.  As the code has it: the second run adds none for a   *)
(* call argument (the wrapped argument is a block, no longer a path) and   *)
(* none for an injected call, but it generates one more call for every let *)
(* binding and assignment the first run generated one for.                 *)
(***************************************************************************)
FirstFile == Visited /\ before = Fields(EnumInstrumenter_new)
SecondRun == visit_file_mut(EnumInstrumenter_new, output.v)
Kinds(emits) == [n \in 1 .. Len(emits) |-> <<emits[n].shape, emits[n].segs>>]
Statements(emits) == SelectSeq(emits, LAMBDA ev : ev.shape # "arg")

C4_SecondRunAddsNothing ==
    FirstFile => LET Same(r) == CountCalls(r.nodes, 1) = CountCalls(output.v, 1)
                 IN  Same(SecondRun)

C4_SecondRunAddsStatementCalls ==
    FirstFile =>
        LET Again(r) ==
                /\ "arg" \notin Shapes(Emits(r.s.log))
                /\ Kinds(Emits(r.s.log)) = Kinds(Statements(Generated))
                /\ CountCalls(r.nodes, 1)
                      = CountCalls(output.v, 1) + Len(Statements(Generated))
        IN  Again(SecondRun)

\* The first run instrumented a let binding and a call argument.
C4_Witness ==
    /\ FirstFile
    /\ {"let", "arg"} \subseteq Shapes(Generated)

(***************************************************************************)
(* C5.  A usage Enum::Variant that the visitor classifies before it has    *)
(* visited the declaration of Enum (in this file or an earlier one) gets   *)
(* no call and allocates nothing; one it classifies after the declaration, *)
(* outside const context, gets a call, and the call is in the tree.        *)
(***************************************************************************)
C5_DeclarationFirst ==
    /\ \A n \in 1 .. Len(Usages) :
          /\ ~Usages[n].declared =>
                Usages[n].call = None /\ Usages[n].after = Usages[n].before
          /\ Usages[n].declared /\ ~Usages[n].lex_const => Usages[n].call # None
    /\ Visited => CountCalls(output.v, 1) = Len(Generated)

\* One file uses S::A before the declaration of S (no call) and after it (a call).
C5_Witness ==
    \E m, n \in 1 .. Len(Usages) :
        /\ m < n
        /\ Usages[m].segs = <<"S", "A">> /\ ~Usages[m].declared
        /\ Usages[m].call = None
        /\ Usages[n].segs = <<"S", "A">> /\ Usages[n].declared
        /\ Usages[n].call # None

(***************************************************************************)
(* C6.  An instrumented call argument is replaced in place by a block that *)
(* holds exactly the instrumentation call and then the original argument   *)
(* as its value; the loop leaves the other arguments as they were, and the *)
(* walk that follows changes an argument only by instrumenting inside it.  *)
(***************************************************************************)
Calls == SelectSeq(log, LAMBDA ev : ev.ev = "call")
ArgCalls(site, i) ==
    {Usages[n].call : n \in {m \in 1 .. Len(Usages) :
                                /\ Usages[m].shape = "arg"
                                /\ Usages[m].site = site \o <<i>>
                                /\ Usages[m].call # None}}

C6_ArgumentWrapped ==
    \A n \in 1 .. Len(Calls) :
        /\ Len(Calls[n].wrapped) = Len(Calls[n].before)
        /\ Len(Calls[n].after) = Len(Calls[n].before)
        /\ \A i \in 1 .. Len(Calls[n].before) :
              IF ArgCalls(Calls[n].site, i) # {}
              THEN /\ Cardinality(ArgCalls(Calls[n].site, i)) = 1
                   /\ \E c \in ArgCalls(Calls[n].site, i) :
                         /\ IsInstrumentStmt(c)
                         /\ Calls[n].after[i] =
                               [k |-> "Block",
                                stmts |-> <<c, [k |-> "Expr", e |-> Calls[n].before[i],
                                                semi |-> FALSE]>>]
                   /\ Calls[n].wrapped[i] = Calls[n].after[i]
              ELSE /\ Calls[n].wrapped[i] = Calls[n].before[i]
                   /\ CountCalls(<<Calls[n].after[i]>>, 1) = 0
                         => Calls[n].after[i] = Calls[n].before[i]

\* A call with two arguments: the literal stays, the path after it is wrapped.
C6_Witness ==
    \E n \in 1 .. Len(Calls) :
        /\ Len(Calls[n].before) = 2
        /\ Calls[n].before[1].k = "Lit" /\ Calls[n].after[1] = Calls[n].before[1]
        /\ Calls[n].before[2].k = "Path" /\ Calls[n].after[2].k = "Block"

(***************************************************************************)
(* C7.  The scenario file, visited by a fresh instrumenter: three calls,   *)
(* (1, 0) before the first let, (2, 1) before the assignment, (3, 0) in a  *)
(* block around the call argument; nothing for Status::Pending(42).        *)
(***************************************************************************)
Hook(location, state) ==
    [k |-> "Expr", semi |-> TRUE,
     e |-> [k |-> "Call",
            func |-> [k |-> "Path", segs |-> <<"sginstrument", "instrument">>],
            args |-> <<[k |-> "Lit", v |-> location, suffix |-> "u32"],
                       [k |-> "Lit", v |-> state, suffix |-> "u32"]>>]]

ScenarioOutput ==
    <<ItemEnum("Status"),
      ItemFn(FALSE,
        <<Hook(1, 0),
          StmtLocal("status", ExprPath(<<"Status", "Active">>)),
          StmtLocal("other", ExprCall(ExprPath(<<"Status", "Pending">>),
                                      <<ExprLit(42, "")>>)),
          Hook(2, 1),
          StmtExpr(ExprAssign(ExprPath(<<"other">>),
                              ExprPath(<<"Status", "Inactive">>)), TRUE),
          StmtExpr(ExprCall(ExprPath(<<"process_status">>),
                            <<ExprBlock(<<Hook(3, 0),
                                          StmtExpr(ExprPath(<<"Status", "Active">>),
                                                   FALSE)>>)>>), TRUE)>>)>>

ScenarioRun == FirstFile /\ input.v = ScenarioFile

C7_Scenario ==
    ScenarioRun =>
        /\ output.v = ScenarioOutput
        /\ [n \in 1 .. Len(Generated) |->
              <<Generated[n].shape, CallLocation(Generated[n].call),
                CallState(Generated[n].call)>>]
              = <<(<<"let", 1, 0>>), <<"assign", 2, 1>>, <<"arg", 3, 0>>>>

C7_Witness == ScenarioRun /\ pc = "write"

(***************************************************************************)
(* C8.  The classifier answers Some exactly for a path of two or more      *)
(* segments whose second-to-last segment is in enum_types, with the last   *)
(* two segments as the pair; a path it does not classify changes nothing.  *)
(***************************************************************************)
C8_Classifier ==
    \A n \in 1 .. Len(Usages) :
        LET segs == Usages[n].segs
        IN  IF Len(segs) >= 2 /\ segs[Len(segs) - 1] \in Usages[n].before.enum_types
            THEN Usages[n].info = Some(<<segs[Len(segs) - 1], segs[Len(segs)]>>)
            ELSE Usages[n].info = None /\ Usages[n].after = Usages[n].before

\* One visit classifies m::S::B as (S, B) and leaves the one-segment path x alone.
C8_Witness ==
    /\ \E n \in 1 .. Len(Usages) :
          /\ Usages[n].segs = <<"m", "S", "B">>
          /\ Usages[n].info = Some(<<"S", "B">>)
    /\ emitted > Len(Generated)

(***************************************************************************)
(* C9.  Fail-fast.  When reading, parsing or writing a file fails the run  *)
(* is over: the failing file is the last path the run touched, no          *)
(* completion line is printed, and the files before it stay overwritten.   *)
(* When the run succeeds every file it took was overwritten exactly once.  *)
(***************************************************************************)
PerFileError ==
    result.k = "Err" /\ result.e.type \notin {"WrongArguments", "InvalidPath", "walkdir"}
Completed == \E i \in 1 .. Len(stdout) : stdout[i] = <<"Instrumentation complete!">>
Overwritten(e) == e.reads = 1 /\ e.writes = 1 /\ e.content = "instrumented"
Failing == \E j \in 1 .. Len(entries) : entries[j].reads = 1 /\ entries[j].writes = 0

C9_FailFast ==
    /\ Failing /\ pc # "write" =>
          /\ PerFileError
          /\ pc = "done"
          /\ ~Completed
          /\ entries[Len(entries)].writes = 0
          /\ \A j \in 1 .. Len(entries) - 1 :
                IF entries[j].kind = "rs" THEN Overwritten(entries[j])
                ELSE entries[j].reads = 0 /\ entries[j].writes = 0
    /\ result = Ok =>
          \A j \in 1 .. Len(entries) : entries[j].kind = "rs" => Overwritten(entries[j])

\* The second file of a directory fails after the first was overwritten.
C9_Witness ==
    /\ PerFileError
    /\ Len(entries) = 2
    /\ Overwritten(entries[1])
    /\ entries[2].writes = 0

(***************************************************************************)
(* C10.  Every error of reading, parsing or writing a file reaches the     *)
(* caller wrapped with the path of the file.  main hands the error of its  *)
(* own process_file call on unwrapped.                                     *)
(***************************************************************************)
C10_ErrorsCarryPath ==
    Failing /\ pc = "done" =>
        /\ result.k = "Err"
        /\ result.e.type = "ErrorProcessing"
        /\ result.e.path = Len(entries)

(***************************************************************************)
(* C11.  Directory mode.  Every entry the loop takes (a file with the      *)
(* source extension) is read and written at most once, and exactly once    *)
(* when the run succeeds; the other entries are never read or written; the *)
(* visit of a file starts from the instrumenter the earlier files left;    *)
(* the lines printed are one progress line per written file, in order, and *)
(* then, only when the run succeeded, the completion line.                 *)
(***************************************************************************)
WrittenEntries ==
    SelectSeq([j \in 1 .. Len(entries) |-> j], LAMBDA j : entries[j].writes = 1)

C11_DirectoryRun ==
    mode = "dir" =>
        /\ \A j \in 1 .. Len(entries) :
              IF entries[j].kind = "rs"
              THEN /\ entries[j].reads <= 1
                   /\ entries[j].writes <= entries[j].reads
                   /\ j < Len(entries) => Overwritten(entries[j])
              ELSE entries[j].reads = 0 /\ entries[j].writes = 0
                   /\ entries[j].content = "original"
        /\ result = Ok => \A j \in 1 .. Len(entries) :
                             entries[j].kind = "rs" => Overwritten(entries[j])
        /\ stdout = [n \in 1 .. Len(WrittenEntries) |-> <<"Processed", WrittenEntries[n]>>]
                       \o (IF result = Ok THEN <<(<<"Instrumentation complete!">>)>>
                           ELSE <<>>)
        /\ before.location_counter = 1 + emitted - Len(Generated)
        /\ Usages # <<>> =>
              /\ Usages[1].before.location_counter = before.location_counter
              /\ Usages[1].before.enum_variants = before.enum_variants
              /\ before.enum_types \subseteq Usages[1].before.enum_types

\* The second file of a directory is written after a first one that generated
\* calls, and generates calls of its own.
C11_Witness ==
    /\ mode = "dir"
    /\ pc = "walk"
    /\ Len(entries) = 2
    /\ Overwritten(entries[1]) /\ Overwritten(entries[2])
    /\ Len(stdout) = 2
    /\ Generated # <<>>
    /\ emitted > Len(Generated)

(***************************************************************************)
(* C12.  A usage of a variant that stands in a later sibling of the enum's *)
(* declaration (same item list or statement list), outside const context,  *)
(* gets a call.  visit_block_mut classifies the let bindings and           *)
(* assignments of a block before it walks the block's statements, so an    *)
(* enum declared in a block is not yet recorded when they are classified.  *)
(***************************************************************************)
Decls == SelectSeq(log, LAMBDA ev : ev.ev = "decl")

\* The node at position u is, or is inside, a later sibling of the node at d.
LaterSibling(d, u) ==
    /\ Len(u) >= Len(d)
    /\ SubSeq(u, 1, Len(d) - 1) = SubSeq(d, 1, Len(d) - 1)
    /\ u[Len(d)] > d[Len(d)]

C12_LaterSiblingInstrumented ==
    \A m \in 1 .. Len(Decls), n \in 1 .. Len(Usages) :
        ( /\ LaterSibling(Decls[m].site, Usages[n].site)
          /\ Len(Usages[n].segs) >= 2
          /\ Usages[n].segs[Len(Usages[n].segs) - 1] = Decls[m].ident
          /\ ~Usages[n].lex_const )
        => Usages[n].call # None

(***************************************************************************)
(* C13.  Of two calls generated in one file, the one whose usage comes     *)
(* first in the source text carries the smaller location id.               *)
(* visit_block_mut gives the let bindings and assignments of a block their *)
(* locations before the walk reaches any call argument of that block.      *)
(***************************************************************************)
\* Text order of positions: a node before its children, children by index.
TextBefore(a, b) ==
    \E k \in 1 .. Len(b) :
        /\ k <= Len(a) + 1
        /\ SubSeq(a, 1, k - 1) = SubSeq(b, 1, k - 1)
        /\ k <= Len(a) => a[k] < b[k]

C13_LocationsInTextOrder ==
    \A m, n \in 1 .. Len(Generated) :
        TextBefore(Generated[m].site, Generated[n].site)
            => CallLocation(Generated[m].call) < CallLocation(Generated[n].call)

(***************************************************************************)
(* C14.  What visit_block_mut does to the statement list of a block.       *)
(* As claimed: the list after the visit, without the injected calls, is    *)
(* the original list, and a block without a matching let binding or        *)
(* assignment is unchanged.  As the code has it: that holds of the list    *)
(* the loop builds (node.stmts = new_stmts); the walk that follows keeps   *)
(* the number and order of the statements, the injected calls and their    *)
(* targets, and changes another statement only by instrumenting inside it  *)
(* (a wrapped call argument, a nested block).                              *)
(***************************************************************************)
Blocks == SelectSeq(log, LAMBDA ev : ev.ev = "block")

\* The calls generated for the let binding or assignment at a position.
StmtCalls(site) ==
    {Usages[n].call : n \in {m \in 1 .. Len(Usages) :
                                /\ Usages[m].shape \in {"let", "assign"}
                                /\ Usages[m].site = site
                                /\ Usages[m].call # None}}
AsSeq(set) == IF set = {} THEN <<>> ELSE <<CHOOSE x \in set : TRUE>>

RECURSIVE Interleave(_, _, _)
Interleave(stmts, site, i) ==
    IF i > Len(stmts) THEN <<>>
    ELSE AsSeq(StmtCalls(site \o <<i>>)) \o <<stmts[i]>> \o Interleave(stmts, site, i + 1)

\* The statements of a list that were not injected by the loop.
Originals(b, list) ==
    LET keep == SelectSeq([j \in 1 .. Len(b.at) |-> j], LAMBDA j : Len(b.at[j]) = 1)
    IN  [n \in 1 .. Len(keep) |-> list[keep[n]]]

Scopes == SelectSeq(log, LAMBDA ev : ev.ev = "scope")

C15_FlagStackDiscipline ==
    /\ \A n \in 1 .. Len(Scopes) :
          /\ Scopes[n].after = Scopes[n].was
          /\ Scopes[n].was => Scopes[n].inside
          /\ Scopes[n].was => Scopes[n].lex_outer
          /\ Scopes[n].kind \in {"Const", "Static"} => Scopes[n].inside
          /\ Scopes[n].kind = "Fn" /\ Scopes[n].is_const => Scopes[n].inside
    /\ ~instrumenter.in_const_context
    /\ ~before.in_const_context

\* A function not declared const, visited inside a const scope: the flag is
\* set before, inside and after its visit.
C15_Witness ==
    /\ \E n \in 1 .. Len(Scopes) :
          /\ Scopes[n].kind = "Fn" /\ ~Scopes[n].is_const
          /\ Scopes[n].was /\ Scopes[n].inside /\ Scopes[n].after
    /\ \E n \in 1 .. Len(Scopes) :
          /\ Scopes[n].kind = "Fn" /\ Scopes[n].is_const
          /\ ~Scopes[n].was /\ Scopes[n].inside /\ ~Scopes[n].after

(***************************************************************************)
(* C16.  A classified usage met while the const-context flag is set gets   *)
(* no call and leaves the location counter and the variant registry as     *)
(* they were; a variant is registered by the first call generated for it,  *)
(* with the number of variants registered until then.                      *)
(***************************************************************************)
C16_ConstContextNoOp ==
    \A n \in 1 .. Len(Usages) :
        /\ Usages[n].before.in_const_context =>
              /\ Usages[n].call = None
              /\ Usages[n].after = Usages[n].before
        /\ Usages[n].call # None /\ KeyOf(Usages[n].segs) \notin DOMAIN Usages[n].before.enum_variants
              => CallState(Usages[n].call) = Cardinality(DOMAIN Usages[n].before.enum_variants)

\* A variant classified in const context first and instrumented later: it is
\* still unregistered when the later usage is met, and gets the id 0 there.
C16_Witness ==
    \E m, n \in 1 .. Len(Usages) :
        /\ m < n
        /\ Usages[m].before.in_const_context
        /\ Usages[m].info.k = "Some"
        /\ Usages[n].segs = Usages[m].segs
        /\ Usages[n].before.enum_variants = EmptyMap
        /\ Usages[n].call # None
        /\ CallState(Usages[n].call) = 0
        /\ CallLocation(Usages[n].call) = 1

(***************************************************************************)
(* C17.  The set of enum names and the variant registry only grow in a     *)
(* run: no step of the run, and no classification within a visit, removes  *)
(* a name or removes or changes the id of a key; so a usage of an enum     *)
(* that an earlier file declared is classified in a later file.            *)
(***************************************************************************)
Grows(a, b) ==
    /\ a.enum_types \subseteq b.enum_types
    /\ \A key \in DOMAIN a.enum_variants :
          key \in DOMAIN b.enum_variants /\ b.enum_variants[key] = a.enum_variants[key]

C17_RegistriesGrow ==
    /\ [][Grows(instrumenter, instrumenter')]_vars
    /\ [](\A n \in 1 .. Len(Usages) :
             /\ Grows(before, Usages[n].before)
             /\ Grows(Usages[n].before, Usages[n].after)
             /\ Grows(Usages[n].after, instrumenter)
             /\ ( Len(Usages[n].segs) >= 2
                  /\ Usages[n].segs[Len(Usages[n].segs) - 1] \in before.enum_types )
                => Usages[n].info.k = "Some")

\* The second file declares nothing and uses an enum the first file declared:
\* the usage gets a call with the id the first file registered.
C17_Witness ==
    /\ Len(entries) = 2
    /\ Decls = <<>>
    /\ \E n \in 1 .. Len(Generated) :
          /\ KeyOf(Generated[n].segs) \in DOMAIN before.enum_variants
          /\ CallState(Generated[n].call) = before.enum_variants[KeyOf(Generated[n].segs)]

(***************************************************************************)
(* C18.  A tuple-style construction (a variant path applied to arguments)  *)
(* is not a usage: the path in callee position is never classified, its    *)
(* variant is never registered, every call in the output belongs to a bare *)
(* usage, and the construction is in the output as it was in the input.    *)
(***************************************************************************)
\* The variants that the files use in callee position only.
TupleVariants == {"P", "Pending"}

\* Number of tuple-style constructions in a list of nodes, at any depth.
RECURSIVE CountTuples(_, _)
CountTuples(nodes, i) ==
    IF i > Len(nodes) THEN 0
    ELSE (IF /\ nodes[i].k = "Call"
             /\ nodes[i].func.k = "Path"
             /\ nodes[i].func.segs[Len(nodes[i].func.segs)] \in TupleVariants
             /\ nodes[i].args = <<ExprLit(42, "")>>
          THEN 1 ELSE 0)
         + CountTuples(Children(nodes[i]), 1)
         + CountTuples(nodes, i + 1)

C18_TupleNotInstrumented ==
    /\ \A n \in 1 .. Len(Usages) :
          Usages[n].segs[Len(Usages[n].segs)] \notin TupleVariants
    /\ \A key \in DOMAIN instrumenter.enum_variants : key[2] \notin TupleVariants
    /\ Visited =>
          /\ CountTuples(output.v, 1) = CountTuples(input.v, 1)
          /\ CountCalls(output.v, 1) = Len(Generated)

\* A file with a construction as a call argument has been visited, next to a
\* bare usage that got its call.
C18_Witness ==
    /\ Visited
    /\ CountTuples(input.v, 1) = 1
    /\ Generated # <<>>
    /\ \E n \in 1 .. Len(Calls) :
          /\ Len(Calls[n].before) = 1
          /\ Calls[n].before[1].k = "Call"
          /\ Calls[n].after = Calls[n].before

(***************************************************************************)
(* C19.  Every usage is classified once and gets at most one call in a     *)
(* run, though the visitor walks the nodes it has rewritten: the walk of a *)
(* wrapping block and of an injected call classifies nothing and leaves    *)
(* them as they are.                                                       *)
(***************************************************************************)
IsInjectedArgs(args) ==
    /\ Len(args) = 2
    /\ \A i \in 1 .. 2 : args[i].k = "Lit" /\ args[i].suffix = "u32"

C19_AtMostOneCall ==
    /\ \A m, n \in 1 .. Len(Usages) : Usages[m].site = Usages[n].site => m = n
    /\ \A n \in 1 .. Len(Blocks) :
          ( Blocks[n].before # <<>> /\ IsInstrumentStmt(Blocks[n].before[1]) ) =>
              /\ Blocks[n].new_stmts = Blocks[n].before
              /\ Blocks[n].after = Blocks[n].before
              /\ \A m \in 1 .. Len(Usages) :
                    ~( /\ Len(Usages[m].site) > Len(Blocks[n].site)
                       /\ SubSeq(Usages[m].site, 1, Len(Blocks[n].site)) = Blocks[n].site )
    /\ \A n \in 1 .. Len(Calls) :
          IsInjectedArgs(Calls[n].before) => Calls[n].after = Calls[n].before
    /\ Visited => CountCalls(output.v, 1) = Len(Generated)

\* The walk has visited the block wrapped around an argument, and the call
\* injected before a let binding.
C19_Witness ==
    /\ \E n \in 1 .. Len(Blocks) :
          /\ Len(Blocks[n].before) = 2
          /\ IsInstrumentStmt(Blocks[n].before[1])
          /\ Blocks[n].before[2] = StmtExpr(ExprPath(<<"S", "A">>), FALSE)
    /\ {"let", "arg"} \subseteq Shapes(Generated)
    /\ Cardinality({n \in 1 .. Len(Calls) : IsInjectedArgs(Calls[n].before)}) = 2

(***************************************************************************)
(* C20.  When reading or parsing a file fails, the file keeps its original *)
(* content and is not written, no progress line is printed for it, and the *)
(* instrumenter is as it was before the file.                              *)
(***************************************************************************)
Cause == IF result.e.type = "ErrorProcessing" THEN result.e.source ELSE result.e
ReadOrParseError ==
    /\ PerFileError
    /\ \/ Cause.type = "syn"
       \/ Cause.type = "io" /\ Cause.op = "read"

C20_ParseErrorLeavesFile ==
    ReadOrParseError =>
        /\ entries[Len(entries)].writes = 0
        /\ entries[Len(entries)].content = "original"
        /\ \A i \in 1 .. Len(stdout) : stdout[i] # <<"Processed", Len(entries)>>
        /\ instrumenter = before
        /\ instrumenter.location_counter = 1 + emitted
        /\ ~Visited /\ log = <<>>

\* The second file of a directory does not parse, after a first file that
\* generated calls and was written.
C20_Witness ==
    /\ ReadOrParseError
    /\ Cause.type = "syn"
    /\ Len(entries) = 2
    /\ Overwritten(entries[1])
    /\ emitted > 0

====
